---- MODULE Spec2Model ----
(***************************************************************************)
(* Price My Car API (main.py): the POST /price-car request handler, the    *)
(* extraction call it awaits, and the get_car_price pricing tool.          *)
(*                                                                         *)
(* Text is a sequence of one-character strings, so that str.lower() and    *)
(* f-string formatting are computed character by character.  A Python      *)
(* value is a record [t, s, n]: t is its type ("str", "none", "int"), s    *)
(* the characters of a str, n the number of an int.                        *)
(***************************************************************************)
EXTENDS Integers, Sequences, FiniteSets, TLC

\* ------------------------------------------------------------------ bounds

\* number of concurrent requests to POST /price-car
NumRequests == 2
\* jitter draws sampled by the concurrent specification: this many values at
\* each end of randint's interval and on each side of 0
JitterSamples == 1
\* the case variants of a table key given to get_car_price upper-case its
\* first k characters, for k up to MaxUpper
MaxUpper == 2

\* ---------------------------------------------------------- Python values

None == [t |-> "none", s |-> <<>>, n |-> 0]
PyStr(chars) == [t |-> "str", s |-> chars, n |-> 0]
PyInt(k) == [t |-> "int", s |-> <<>>, n |-> k]
\* a key that a JSON object or dict does not have
Missing == [t |-> "missing", s |-> <<>>, n |-> 0]

\* faulty variant of Falsy: only None counts as absent (`is None`)
FalsyOnlyNone(v) == v.t = "none"

\* truth value of `not v`: None, "" and 0 are falsy
Falsy(v) ==
    \/ v.t = "none"
    \/ v.t = "str" /\ v.s = <<>>
    \/ v.t = "int" /\ v.n = 0

UpperToLower ==
    [c \in {"A","B","C","D","E","F","G","H","I","J","K","L","M","N","O","P",
            "Q","R","S","T","U","V","W","X","Y","Z"} |->
        CASE c = "A" -> "a" [] c = "B" -> "b" [] c = "C" -> "c" [] c = "D" -> "d"
          [] c = "E" -> "e" [] c = "F" -> "f" [] c = "G" -> "g" [] c = "H" -> "h"
          [] c = "I" -> "i" [] c = "J" -> "j" [] c = "K" -> "k" [] c = "L" -> "l"
          [] c = "M" -> "m" [] c = "N" -> "n" [] c = "O" -> "o" [] c = "P" -> "p"
          [] c = "Q" -> "q" [] c = "R" -> "r" [] c = "S" -> "s" [] c = "T" -> "t"
          [] c = "U" -> "u" [] c = "V" -> "v" [] c = "W" -> "w" [] c = "X" -> "x"
          [] c = "Y" -> "y" [] c = "Z" -> "z"]

\* str.lower() on ASCII text: upper-case letters are mapped, all else is kept
lower(chars) ==
    [i \in DOMAIN chars |->
        IF chars[i] \in DOMAIN UpperToLower THEN UpperToLower[chars[i]] ELSE chars[i]]

\* ------------------------------------------------------------ get_car_price

honda == <<"h","o","n","d","a">>
toyota == <<"t","o","y","o","t","a">>
ford == <<"f","o","r","d">>
accord == <<"a","c","c","o","r","d">>
civic == <<"c","i","v","i","c">>
camry == <<"c","a","m","r","y">>
corolla == <<"c","o","r","o","l","l","a">>
focus == <<"f","o","c","u","s">>
mustang == <<"m","u","s","t","a","n","g">>

\* the dict literal of get_car_price
known_prices ==
    (honda :> (accord :> 4750 @@ civic :> 3500))
    @@ (toyota :> (camry :> 5200 @@ corolla :> 3800))
    @@ (ford :> (focus :> 3200 @@ mustang :> 8500))

MaxJitter == 250

\* random.randint(a, b): the set of values one draw can produce
randintUpperExclusive(a, b) == a .. (b - 1)
randint(a, b) == a .. b

\* the f-string of the ValueError, as the chunks it concatenates
PricingMessage(make, model) ==
    <<"Pricing for make '">> \o make \o <<"' and model '">> \o model
        \o <<"' is not available.">>

\* faulty variants of get_car_price: the model is looked up without lower-casing it;
\* the message is formatted from the lower-cased strings; the jittered price
\* is written back into the table
get_car_price_model_not_lowered(make, model, jitter) ==
    IF make.t # "str" \/ model.t # "str"
    THEN [kind |-> "AttributeError", price |-> 0, msg |-> <<>>, draws |-> 0,
          table |-> known_prices]
    ELSE LET make_lower == lower(make.s)
             model_lower == model.s
         IN  IF make_lower \in DOMAIN known_prices
                /\ model_lower \in DOMAIN known_prices[make_lower]
             THEN [kind |-> "return",
                   price |-> known_prices[make_lower][model_lower] + jitter,
                   msg |-> <<>>, draws |-> 1, table |-> known_prices]
             ELSE [kind |-> "ValueError", price |-> 0,
                   msg |-> PricingMessage(make.s, model.s), draws |-> 0,
                   table |-> known_prices]

get_car_price_message_lowered(make, model, jitter) ==
    IF make.t # "str" \/ model.t # "str"
    THEN [kind |-> "AttributeError", price |-> 0, msg |-> <<>>, draws |-> 0,
          table |-> known_prices]
    ELSE LET make_lower == lower(make.s)
             model_lower == lower(model.s)
         IN  IF make_lower \in DOMAIN known_prices
                /\ model_lower \in DOMAIN known_prices[make_lower]
             THEN [kind |-> "return",
                   price |-> known_prices[make_lower][model_lower] + jitter,
                   msg |-> <<>>, draws |-> 1, table |-> known_prices]
             ELSE [kind |-> "ValueError", price |-> 0,
                   msg |-> PricingMessage(make_lower, model_lower), draws |-> 0,
                   table |-> known_prices]

get_car_price_caches_price(make, model, jitter) ==
    IF make.t # "str" \/ model.t # "str"
    THEN [kind |-> "AttributeError", price |-> 0, msg |-> <<>>, draws |-> 0,
          table |-> known_prices]
    ELSE LET make_lower == lower(make.s)
             model_lower == lower(model.s)
         IN  IF make_lower \in DOMAIN known_prices
                /\ model_lower \in DOMAIN known_prices[make_lower]
             THEN LET price == known_prices[make_lower][model_lower] + jitter
                  IN  [kind |-> "return", price |-> price, msg |-> <<>>,
                       draws |-> 1,
                       table |-> [known_prices EXCEPT
                                    ![make_lower][model_lower] = price]]
             ELSE [kind |-> "ValueError", price |-> 0,
                   msg |-> PricingMessage(make.s, model.s), draws |-> 0,
                   table |-> known_prices]

\* get_car_price(make, model) with `jitter` the value random.randint returns
\* if it is called.  kind is "return" (price is the result), "ValueError"
\* (msg is its text) or "AttributeError" (.lower() on a value that is not a
\* str); draws counts the calls of random.randint; table is the local dict
\* known_prices as the call leaves it.
get_car_price(make, model, jitter) ==
    IF make.t # "str" \/ model.t # "str"
    THEN [kind |-> "AttributeError", price |-> 0, msg |-> <<>>, draws |-> 0,
          table |-> known_prices]
    ELSE LET make_lower == lower(make.s)
             model_lower == lower(model.s)
         IN  IF make_lower \in DOMAIN known_prices
                /\ model_lower \in DOMAIN known_prices[make_lower]
             THEN [kind |-> "return",
                   price |-> known_prices[make_lower][model_lower] + jitter,
                   msg |-> <<>>, draws |-> 1, table |-> known_prices]
             ELSE [kind |-> "ValueError", price |-> 0,
                   msg |-> PricingMessage(make.s, model.s), draws |-> 0,
                   table |-> known_prices]

\* ------------------------------------------------------- the request handler

\* dict.get(key): None when the key is absent
Get(d, key) == IF d[key].t = "missing" THEN None ELSE d[key]

\* what extraction_chain.ainvoke returned: a JSON object (dict) with make and
\* model, or a JSON value that is not an object
Dict(make, model) == [t |-> "dict", make |-> make, model |-> model]
NonDict(type) == [t |-> type, make |-> Missing, model |-> Missing]

ParseErrorDetail ==
    <<"The server had trouble understanding the response from the AI model. Please try again.">>
InternalErrorDetail ==
    <<"An internal server error occurred. Please try again later.">>
ExtractionEmptyDetail ==
    <<"Could not extract a valid make and model from the provided text. Please provide a more descriptive listing.">>

NoBody == [make |-> <<>>, model |-> <<>>, price |-> 0]
NoResponse == [status |-> 0, detail |-> <<>>, body |-> NoBody, fault |-> ""]

\* raise HTTPException(status_code, detail)
HTTPException(status_code, detail) ==
    [status |-> status_code, detail |-> detail, body |-> NoBody, fault |-> ""]
\* return PricedCar(make, model, price), serialised with status 200
PricedCar(make, model, price) ==
    [status |-> 200, detail |-> <<>>,
     body |-> [make |-> make, model |-> model, price |-> price], fault |-> ""]
\* an exception that leaves price_car_endpoint: the server answers 500
\* "Internal Server Error" and the exception reaches the server's error log
Unhandled(exception) ==
    [status |-> 500, detail |-> <<"Internal Server Error">>, body |-> NoBody,
     fault |-> exception]
\* the body is rejected by the CarListing model before the endpoint runs
RequestValidationError ==
    [status |-> 422, detail |-> <<"<request validation errors>">>,
     body |-> NoBody, fault |-> ""]

\* the request body is a JSON object whose title and description are text
ValidListing(body) ==
    body.json /\ body.title.t = "str" /\ body.description.t = "str"

\* faulty variant of OnExtractionRaised: str(e) is appended to the detail
OnExtractionRaisedLeaksCause(exception, cause) ==
    IF exception = "OutputParserException"
    THEN [response |-> HTTPException(500, ParseErrorDetail \o cause),
          log |-> <<"OutputParserException occurred: ">> \o cause]
    ELSE [response |-> HTTPException(500, InternalErrorDetail \o cause),
          log |-> <<"An unexpected error occurred: ">> \o cause]

\* the except clauses of the await: the response and the logged line
OnExtractionRaised(exception, cause) ==
    IF exception = "OutputParserException"
    THEN [response |-> HTTPException(500, ParseErrorDetail),
          log |-> <<"OutputParserException occurred: ">> \o cause]
    ELSE [response |-> HTTPException(500, InternalErrorDetail),
          log |-> <<"An unexpected error occurred: ">> \o cause]

\* faulty variant of PriceResponse: the 200 body carries the lower-cased strings
PriceResponseLowered(make, model, result) ==
    CASE result.kind = "return" ->
            PricedCar(lower(make.s), lower(model.s), result.price)
      [] result.kind = "ValueError" -> HTTPException(404, result.msg)
      [] OTHER -> Unhandled(result.kind)

\* faulty variant of PriceResponse: the 404 detail is a fixed text, not str(e)
PriceResponseFixedDetail(make, model, result) ==
    CASE result.kind = "return" -> PricedCar(make.s, model.s, result.price)
      [] result.kind = "ValueError" ->
            HTTPException(404, <<"Pricing is not available.">>)
      [] OTHER -> Unhandled(result.kind)

\* the try around get_car_price and the final return
PriceResponse(make, model, result) ==
    CASE result.kind = "return" -> PricedCar(make.s, model.s, result.price)
      [] result.kind = "ValueError" -> HTTPException(404, result.msg)
      [] OTHER -> Unhandled(result.kind)

\* price_car_endpoint from the value the await returned to its end: the
\* response, whether get_car_price was called, the random.randint calls and
\* the tables get_car_price calls left behind
AfterExtraction(extracted_info, jitter) ==
    IF extracted_info.t # "dict"
    THEN [response |-> Unhandled("AttributeError"), price_calls |-> 0,
          draws |-> 0, tables |-> {}]
    ELSE LET make == Get(extracted_info, "make")
             model == Get(extracted_info, "model")
         IN  IF Falsy(make) \/ Falsy(model)
             THEN [response |-> HTTPException(422, ExtractionEmptyDetail),
                   price_calls |-> 0, draws |-> 0, tables |-> {}]
             ELSE LET result == get_car_price(make, model, jitter)
                  IN  [response |-> PriceResponse(make, model, result),
                       price_calls |-> 1, draws |-> result.draws,
                       tables |-> {result.table}]

\* --------------------------------------------------------------------- state

VARIABLES
    pc,             \* per request: "idle", "awaiting" (suspended at the await), "done"
    listing,        \* per request: the request body
    outcome,        \* per request: how extraction_chain.ainvoke ended
    jitter,         \* per request: the value random.randint returned (0: not called)
    response,       \* per request: the HTTP response
    logged,         \* per request: the line logging.error wrote
    extract_calls,  \* per request: calls of extraction_chain.ainvoke
    price_calls,    \* per request: calls of get_car_price
    draws,          \* per request: calls of random.randint
    tables,         \* contents of known_prices at the end of the get_car_price calls
    make, model,    \* arguments of a direct call of get_car_price
    drawn,          \* the value random.randint returned in it (0: not called)
    result          \* what the direct call of get_car_price produced

vars == <<pc, listing, outcome, jitter, response, logged, extract_calls,
          price_calls, draws, tables, make, model, drawn, result>>
handlerVars == <<pc, listing, outcome, jitter, response, logged, extract_calls,
                 price_calls, draws, tables>>
toolVars == <<make, model, drawn, result>>

Requests == 1 .. NumRequests

\* ---------------------------------------------------------------- the inputs

Text(chunk) == PyStr(<<chunk>>)
Honda == <<"H","o","n","d","a">>
HONDA == <<"H","O","N","D","A">>
Tesla == <<"T","e","s","l","a">>
Accord == <<"A","c","c","o","r","d">>
ModelS == <<"M","o","d","e","l"," ","S">>

NoListing == [json |-> FALSE, title |-> Missing, description |-> Missing]
Listings ==
    { [json |-> FALSE, title |-> Missing, description |-> Missing],
      [json |-> TRUE, title |-> Missing, description |-> Text("It's a reliable car.")],
      [json |-> TRUE, title |-> Text("Selling a 2007 Honda Accord"), description |-> Missing],
      [json |-> TRUE, title |-> Text("Selling a 2007 Honda Accord"), description |-> None],
      [json |-> TRUE, title |-> Text("Selling a 2007 Honda Accord"),
       description |-> Text("It's a reliable car.")] }

Causes == { <<"Invalid json output: I could not find a car">>, <<"Connection error.">> }
Exceptions == { "OutputParserException", "Exception" }
\* the make and model of the dicts the extraction call returns: every
\* combination of null, missing and empty with each other and with a text, a
\* value that is not text, and text pairs inside and outside the pricing table
EmptyValues == { Missing, None, PyStr(<<>>) }
ExtractedPairs ==
    (EmptyValues \X EmptyValues)
    \cup (EmptyValues \X { PyStr(Accord) })
    \cup ({ PyStr(Honda) } \X EmptyValues)
    \cup { <<PyInt(2007), PyStr(Accord)>>, <<PyStr(Honda), PyInt(3)>>,
           <<PyInt(0), PyStr(Accord)>>,
           <<PyStr(Honda), PyStr(Accord)>>, <<PyStr(HONDA), PyStr(Accord)>>,
           <<PyStr(ford), PyStr(focus)>>,
           <<PyStr(Tesla), PyStr(ModelS)>>, <<PyStr(HONDA), PyStr(ModelS)>>,
           <<PyStr(Honda), PyStr(focus)>> }
Returned ==
    { Dict(pair[1], pair[2]) : pair \in ExtractedPairs } \cup { NonDict("list") }

NoOutcome == [kind |-> "", value |-> NonDict(""), cause |-> <<>>]
Raised(exception, cause) == [kind |-> exception, value |-> NonDict(""), cause |-> cause]
Return(value) == [kind |-> "return", value |-> value, cause |-> <<>>]

\* the draws of random.randint(-250, 250)
FullJitter == randint(-MaxJitter, MaxJitter)
SampledJitter ==
    { j \in FullJitter : \/ j < JitterSamples - MaxJitter
                         \/ j > MaxJitter - JitterSamples
                         \/ -JitterSamples < j /\ j < JitterSamples }

NoResult == [kind |-> "", price |-> 0, msg |-> <<>>, draws |-> 0, table |-> known_prices]

Init ==
    /\ pc = [r \in Requests |-> "idle"]
    /\ listing = [r \in Requests |-> NoListing]
    /\ outcome = [r \in Requests |-> NoOutcome]
    /\ jitter = [r \in Requests |-> 0]
    /\ response = [r \in Requests |-> NoResponse]
    /\ logged = [r \in Requests |-> <<>>]
    /\ extract_calls = [r \in Requests |-> 0]
    /\ price_calls = [r \in Requests |-> 0]
    /\ draws = [r \in Requests |-> 0]
    /\ tables = {}
    /\ make = PyStr(<<>>)
    /\ model = PyStr(<<>>)
    /\ drawn = 0
    /\ result = NoResult

\* -------------------------------------------------------------------- actions

\* a request arrives: the body is validated against CarListing; a valid one
\* enters price_car_endpoint, which calls extraction_chain.ainvoke and suspends
Receive(r, body) ==
    /\ pc[r] = "idle"
    /\ listing' = [listing EXCEPT ![r] = body]
    /\ IF ValidListing(body)
       THEN /\ extract_calls' = [extract_calls EXCEPT ![r] = @ + 1]
            /\ pc' = [pc EXCEPT ![r] = "awaiting"]
            /\ UNCHANGED response
       ELSE /\ response' = [response EXCEPT ![r] = RequestValidationError]
            /\ pc' = [pc EXCEPT ![r] = "done"]
            /\ UNCHANGED extract_calls
    /\ UNCHANGED <<outcome, jitter, logged, price_calls, draws, tables, toolVars>>

\* faulty variant of ExtractionRaised: a failed extraction call is made a second time
ExtractionRaisedRetries(r, exception, cause) ==
    /\ pc[r] = "awaiting"
    /\ IF extract_calls[r] < 2
       THEN /\ extract_calls' = [extract_calls EXCEPT ![r] = @ + 1]
            /\ UNCHANGED <<pc, outcome, response, logged>>
       ELSE /\ outcome' = [outcome EXCEPT ![r] = Raised(exception, cause)]
            /\ response' = [response EXCEPT ![r] = OnExtractionRaised(exception, cause).response]
            /\ logged' = [logged EXCEPT ![r] = OnExtractionRaised(exception, cause).log]
            /\ pc' = [pc EXCEPT ![r] = "done"]
            /\ UNCHANGED extract_calls
    /\ UNCHANGED <<listing, jitter, price_calls, draws, tables, toolVars>>

\* the awaited extraction call raises: the handler resumes in an except clause
ExtractionRaised(r, exception, cause) ==
    /\ pc[r] = "awaiting"
    /\ outcome' = [outcome EXCEPT ![r] = Raised(exception, cause)]
    /\ response' = [response EXCEPT ![r] = OnExtractionRaised(exception, cause).response]
    /\ logged' = [logged EXCEPT ![r] = OnExtractionRaised(exception, cause).log]
    /\ pc' = [pc EXCEPT ![r] = "done"]
    /\ UNCHANGED <<listing, jitter, extract_calls, price_calls, draws, tables, toolVars>>

\* the awaited extraction call returns: the handler runs to its end
ExtractionReturned(r, value, j) ==
    /\ pc[r] = "awaiting"
    /\ LET after == AfterExtraction(value, j)
       IN  /\ outcome' = [outcome EXCEPT ![r] = Return(value)]
           /\ response' = [response EXCEPT ![r] = after.response]
           /\ price_calls' = [price_calls EXCEPT ![r] = @ + after.price_calls]
           /\ draws' = [draws EXCEPT ![r] = @ + after.draws]
           /\ jitter' = [jitter EXCEPT ![r] = IF after.draws = 0 THEN 0 ELSE j]
           /\ tables' = tables \cup after.tables
    /\ pc' = [pc EXCEPT ![r] = "done"]
    /\ UNCHANGED <<listing, logged, extract_calls, toolVars>>

NextOver(requests, jitters) ==
    \/ \E r \in requests, body \in Listings : Receive(r, body)
    \/ \E r \in requests, exception \in Exceptions, cause \in Causes :
            ExtractionRaised(r, exception, cause)
    \/ \E r \in requests, value \in Returned, j \in jitters :
            ExtractionReturned(r, value, j)

\* concurrent requests, interleaved at their await
Next == NextOver(Requests, SampledJitter)
Spec == Init /\ [][Next]_vars

\* one request, every draw of random.randint
NextSingle == NextOver({1}, FullJitter)
SpecSingle == Init /\ [][NextSingle]_vars

\* ------------------------------------------- get_car_price called on its own

Min(a, b) == IF a < b THEN a ELSE b
Range(f) == { f[x] : x \in DOMAIN f }
upper(chars) ==
    [i \in DOMAIN chars |->
        IF \E u \in DOMAIN UpperToLower : UpperToLower[u] = chars[i]
        THEN CHOOSE u \in DOMAIN UpperToLower : UpperToLower[u] = chars[i]
        ELSE chars[i]]
\* key with its first k characters in upper case, for every k up to MaxUpper,
\* and key all in upper case
CaseVariants(key) ==
    { [i \in DOMAIN key |-> IF i <= k THEN upper(key)[i] ELSE key[i]] :
        k \in 0 .. Min(MaxUpper, Len(key)) } \cup { upper(key) }

MakeKeys == DOMAIN known_prices
ModelKeys == UNION { DOMAIN known_prices[k] : k \in MakeKeys }
MakeInputs ==
    { PyStr(v) : v \in UNION { CaseVariants(k) : k \in MakeKeys } \cup { <<>>, Tesla } }
ModelInputs ==
    { PyStr(v) : v \in UNION { CaseVariants(k) : k \in ModelKeys } \cup { <<>>, ModelS } }

InitTool ==
    /\ pc = [r \in Requests |-> "idle"]
    /\ listing = [r \in Requests |-> NoListing]
    /\ outcome = [r \in Requests |-> NoOutcome]
    /\ jitter = [r \in Requests |-> 0]
    /\ response = [r \in Requests |-> NoResponse]
    /\ logged = [r \in Requests |-> <<>>]
    /\ extract_calls = [r \in Requests |-> 0]
    /\ price_calls = [r \in Requests |-> 0]
    /\ draws = [r \in Requests |-> 0]
    /\ tables = {}
    /\ make \in MakeInputs
    /\ model \in ModelInputs
    /\ drawn = 0
    /\ result = NoResult

\* get_car_price(make, model) is called; random.randint returns j if called
Call(j) ==
    /\ result.kind = ""
    /\ result' = get_car_price(make, model, j)
    /\ drawn' = IF result'.draws = 0 THEN 0 ELSE j
    /\ UNCHANGED <<make, model, handlerVars>>

NextTool == \E j \in FullJitter : Call(j)
SpecTool == InitTool /\ [][NextTool]_vars

\* -------------------------------------------------------------------- claims

Done(r) == pc[r] = "done"
\* the extraction call of r returned a dict
ReturnedDict(r) == outcome[r].kind = "return" /\ outcome[r].value.t = "dict"
\* a make or model that is null, a missing key or the empty string
Empty(v) == v = None \/ v = Missing \/ v = PyStr(<<>>)
NonEmptyText(v) == v.t = "str" /\ v.s # <<>>
\* the lower-cased pair is an entry of the pricing table
InTable(mk, md) ==
    /\ lower(mk.s) \in DOMAIN known_prices
    /\ lower(md.s) \in DOMAIN known_prices[lower(mk.s)]
BasePrice(mk, md) == known_prices[lower(mk.s)][lower(md.s)]
HasUpperCase(chars) == lower(chars) # chars

\* C1: every finished request carries one of the documented responses (200
\* with a PricedCar, 422, 404, or 500 with one of the two fixed messages) and
\* no exception has left the handler.
C1_EveryOutcomeDocumented ==
    \A r \in Requests : Done(r) =>
        /\ response[r].fault = ""
        /\ \/ response[r].status = 200 /\ response[r].body.price \in Int
           \/ response[r].status = 422
           \/ response[r].status = 404
           \/ /\ response[r].status = 500
              /\ response[r].detail \in
                    { <<"The server had trouble understanding the response from the AI model. Please try again.">>,
                      <<"An internal server error occurred. Please try again later.">> }

\* C2: when the extraction call raises, the response is 500 with the fixed
\* detail of the exception's kind, the price estimator is not called, no
\* randomness is consumed and no part of the exception text is in the detail.
C2_ExtractionFailureIsGeneric500 ==
    \A r \in Requests : Done(r) /\ outcome[r].kind \in Exceptions =>
        /\ response[r].status = 500
        /\ response[r].fault = ""
        /\ response[r].detail =
              IF outcome[r].kind = "OutputParserException"
              THEN <<"The server had trouble understanding the response from the AI model. Please try again.">>
              ELSE <<"An internal server error occurred. Please try again later.">>
        /\ Range(response[r].detail) \cap Range(outcome[r].cause) = {}
        /\ price_calls[r] = 0
        /\ draws[r] = 0

C2_Witness ==
    \E r, q \in Requests :
        /\ Done(r) /\ outcome[r].kind = "OutputParserException"
        /\ Done(q) /\ outcome[q].kind = "Exception"
        /\ outcome[r].cause # <<>> /\ response[r].status = 500

\* C3: when the extraction call returns a dict whose make or model is null,
\* missing or empty, the response is 422 with the fixed detail, and the price
\* estimator is not called and no randomness is consumed.
C3_EmptyExtractionIs422 ==
    \A r \in Requests :
        Done(r) /\ ReturnedDict(r)
            /\ (Empty(outcome[r].value.make) \/ Empty(outcome[r].value.model)) =>
        /\ response[r].status = 422
        /\ response[r].detail =
              <<"Could not extract a valid make and model from the provided text. Please provide a more descriptive listing.">>
        /\ price_calls[r] = 0
        /\ draws[r] = 0

C3_Witness ==
    \E r, q \in Requests :
        /\ Done(r) /\ ReturnedDict(r)
        /\ NonEmptyText(outcome[r].value.make) /\ outcome[r].value.model = None
        /\ Done(q) /\ ReturnedDict(q)
        /\ outcome[q].value.make = PyStr(<<>>) /\ NonEmptyText(outcome[q].value.model)
        /\ response[r].status = 422 /\ response[q].status = 422

\* C4: when the extraction call returns non-empty text for make and model and
\* the lower-cased pair is not in the pricing table, the response is 404 and
\* its detail is the message with the extracted strings in their original case.
C4_UnknownCarIs404 ==
    \A r \in Requests :
        Done(r) /\ ReturnedDict(r)
            /\ NonEmptyText(outcome[r].value.make) /\ NonEmptyText(outcome[r].value.model)
            /\ ~InTable(outcome[r].value.make, outcome[r].value.model) =>
        /\ response[r].status = 404
        /\ response[r].detail =
              <<"Pricing for make '">> \o outcome[r].value.make.s
                \o <<"' and model '">> \o outcome[r].value.model.s
                \o <<"' is not available.">>

C4_Witness ==
    \E r \in Requests :
        /\ Done(r) /\ ReturnedDict(r)
        /\ outcome[r].value.make = PyStr(HONDA) /\ outcome[r].value.model = PyStr(ModelS)
        /\ response[r].status = 404

\* C5: when the extraction call returns non-empty text for make and model and
\* the lower-cased pair is in the pricing table, the response is 200 and its
\* body has the extracted make and model unchanged and an integer price > 0.
C5_KnownCarIs200 ==
    \A r \in Requests :
        Done(r) /\ ReturnedDict(r)
            /\ NonEmptyText(outcome[r].value.make) /\ NonEmptyText(outcome[r].value.model)
            /\ InTable(outcome[r].value.make, outcome[r].value.model) =>
        /\ response[r].status = 200
        /\ response[r].body.make = outcome[r].value.make.s
        /\ response[r].body.model = outcome[r].value.model.s
        /\ response[r].body.price \in Int
        /\ response[r].body.price > 0

C5_Witness ==
    \E r \in Requests :
        /\ Done(r) /\ ReturnedDict(r)
        /\ outcome[r].value.make = PyStr(HONDA) /\ outcome[r].value.model = PyStr(Accord)
        /\ jitter[r] = -MaxJitter
        /\ response[r].status = 200

\* C9: a request that fails input validation makes no extraction call; one
\* that passes makes exactly one, at the moment it is received; the price
\* estimator is called at most once, in the step that ends a request whose
\* extraction call returned a non-empty make and model; the response is
\* written last.
C9_StateOrder ==
    \A r \in Requests :
        /\ Done(r) /\ ~ValidListing(listing[r]) => extract_calls[r] = 0
        /\ pc[r] # "idle" /\ ValidListing(listing[r]) => extract_calls[r] = 1
        /\ pc[r] = "idle" => extract_calls[r] = 0
        /\ pc[r] # "done" => price_calls[r] = 0 /\ draws[r] = 0 /\ response[r] = NoResponse
        /\ price_calls[r] \in {0, 1}
        /\ price_calls[r] = 1 =>
              /\ ReturnedDict(r)
              /\ ~Falsy(outcome[r].value.make) /\ ~Empty(outcome[r].value.make)
              /\ ~Falsy(outcome[r].value.model) /\ ~Empty(outcome[r].value.model)
C9_StepOrder ==
    \A r \in Requests :
        /\ extract_calls'[r] # extract_calls[r] =>
              pc[r] = "idle" /\ pc'[r] = "awaiting" /\ ValidListing(listing'[r])
        /\ price_calls'[r] # price_calls[r] =>
              pc[r] = "awaiting" /\ pc'[r] = "done" /\ extract_calls[r] = 1
        /\ pc[r] = "done" => pc'[r] = "done" /\ response'[r] = response[r]
C9_FixedOrderSingleCalls == []C9_StateOrder /\ [][C9_StepOrder]_vars

C9_Witness ==
    \E r, q \in Requests :
        /\ Done(r) /\ ~ValidListing(listing[r]) /\ extract_calls[r] = 0
        /\ Done(q) /\ extract_calls[q] = 1 /\ price_calls[q] = 1

ReturnsPrice(p) == \E j \in FullJitter : Call(j) /\ result'.kind = "return" /\ result'.price = p
C6_PriceWithinJitter ==
    InTable(make, model) =>
        IF result.kind = ""
        THEN /\ ENABLED ReturnsPrice(BasePrice(make, model) - 250)
             /\ ENABLED ReturnsPrice(BasePrice(make, model) + 250)
        ELSE /\ result.kind = "return"
             /\ result.price \in Int
             /\ BasePrice(make, model) - 250 <= result.price
             /\ result.price <= BasePrice(make, model) + 250

C6_Witness ==
    /\ make = PyStr(ford) /\ model = PyStr(mustang)
    /\ result.kind = "return" /\ result.price = 8750

\* C7: after a call of get_car_price, every input that differs from the
\* call's only in letter case has, for the same draw, the same kind of result
\* (a price or the pricing-unavailable error) and the same price.
C7_CaseInsensitive ==
    result.kind # "" =>
        \A mk \in { x \in MakeInputs : lower(x.s) = lower(make.s) } :
            \A md \in { y \in ModelInputs : lower(y.s) = lower(model.s) } :
                LET other == get_car_price(mk, md, drawn)
                IN  /\ other.kind = result.kind
                    /\ other.price = result.price
                    /\ result.kind \in {"return", "ValueError"}

C7_Witness ==
    /\ make = PyStr(HONDA) /\ model = PyStr(<<"A","c","c","o","r","d">>)
    /\ result.kind = "return" /\ drawn # 0

\* C8: for text inputs whose lower-cased pair is not in the pricing table,
\* get_car_price raises ValueError with the message formatted from the
\* original strings, returns no price and calls random.randint not at all.
C8_UnknownPairRaises ==
    result.kind # "" /\ ~InTable(make, model) =>
        /\ result.kind = "ValueError"
        /\ result.msg = <<"Pricing for make '">> \o make.s \o <<"' and model '">>
                            \o model.s \o <<"' is not available.">>
        /\ result.price = 0
        /\ result.draws = 0
        /\ drawn = 0

C8_Witness ==
    /\ make = PyStr(HONDA) /\ model = PyStr(<<"C","a","m","r","y">>)
    /\ result.kind = "ValueError"

====
